---- MODULE Spec2Model ----
(***************************************************************************)
(* Word Frequency Analyzer (web_Scrapping.py): a Streamlit script that is  *)
(* re-executed top to bottom on every user interaction.  The model has one *)
(* action per kind of interaction (one script run each), plus a second     *)
(* specification that drives the text-statistics pipeline                  *)
(* (clean_text, get_word_stats) over every bounded input text.             *)
(*                                                                         *)
(* A text is a sequence of one-character strings.  A value that is not a   *)
(* text (None, a raised call, an unreadable upload) is a one-element        *)
(* sequence holding a tag that is not a character, so that it compares     *)
(* unequal to every text.                                                  *)
(***************************************************************************)
EXTENDS Naturals, Integers, Sequences, FiniteSets, TLC

\* ------------------------------------------------------------------ bounds
MaxLen == 5        \* longest text fed to the pipeline specification
MaxSessLen == 1    \* longest text a fetch, upload or paste supplies in a session

\* --------------------------------------------------------------- alphabets
Letters == {"a", "b", "c"}
Uppers == {"A"}
Spaces == {" ", "\n"}
Others == {"1"}
Chars == Letters \cup Uppers \cup Spaces \cup Others
SessChars == {"a", "b", " ", "1"}

None == <<"None">>              \* Python's None
NotCalled == <<"NotCalled">>    \* the function was not called in this run
Raised == <<"Raised">>          \* the call raised instead of returning
\* f"https://www.gutenberg.org{book_link}.txt.utf-8"
BookUrl == <<"https://www.gutenberg.org/ebooks/N.txt.utf-8">>
Corrupt == <<"Corrupt">>        \* an upload fitz.open cannot parse

NOVEL == "Enter Novel Name"
PDF == "Upload PDF"
PASTE == "Paste Paragraph"
URL == "Provide URL"
Methods == {NOVEL, PDF, PASTE, URL}

\* what a run shows to the user
SUCCESS == "Book successfully fetched!"
SCRAPE_ERROR == "Error fetching the novel"
FETCH_FAILED == "Failed to fetch the novel."
NOT_FOUND == "Book not found."
URL_FAILED == "Failed to fetch or unsupported URL."
WARNING == "Text is too short or contains no valid words."

\* uncaught exceptions that end a run
NoExc == "none"
RequestException == "requests.exceptions.RequestException"
AttributeError == "AttributeError: 'NoneType' object has no attribute 'strip'"
PdfError == "fitz.FileDataError"

RECURSIVE SeqsUpTo(_, _)
SeqsUpTo(S, n) ==
    IF n = 0 THEN {<<>>}
    ELSE LET shorter == SeqsUpTo(S, n - 1)
         IN  shorter \cup {Append(s, c) : s \in {t \in shorter : Len(t) = n - 1}, c \in S}

PureTexts == SeqsUpTo(Chars, MaxLen)
SessionTexts == SeqsUpTo(SessChars, MaxSessLen)

\* ------------------------------------------------------- string primitives
\* str.lower()
LowerChar(c) == IF c = "A" THEN "a" ELSE c

Lower(s) == [i \in 1..Len(s) |-> LowerChar(s[i])]

\* the characters re.sub(r'[^a-zA-Z\s]', '', ...) keeps
KeptChar(c) == c \in Letters \cup Uppers \cup Spaces

ReSub(s) == SelectSeq(s, KeptChar)

\* str.split(): maximal runs of non-whitespace characters, in order
RECURSIVE SplitFrom(_, _, _, _)
SplitFrom(s, i, cur, acc) ==
    IF i > Len(s) THEN (IF cur = <<>> THEN acc ELSE Append(acc, cur))
    ELSE IF s[i] \in Spaces
         THEN SplitFrom(s, i + 1, <<>>, IF cur = <<>> THEN acc ELSE Append(acc, cur))
         ELSE SplitFrom(s, i + 1, Append(cur, s[i]), acc)

Split(s) == SplitFrom(s, 1, <<>>, <<>>)

\* str.strip(): leading and trailing whitespace removed
RECURSIVE LStrip(_)
LStrip(s) == IF s # <<>> /\ Head(s) \in Spaces THEN LStrip(Tail(s)) ELSE s

RECURSIVE RStrip(_)
RStrip(s) ==
    IF s # <<>> /\ s[Len(s)] \in Spaces THEN RStrip(SubSeq(s, 1, Len(s) - 1)) ELSE s

Strip(s) == RStrip(LStrip(s))

\* ' '.join(words)
RECURSIVE Join(_)
Join(ws) ==
    IF ws = <<>> THEN <<>>
    ELSE IF Len(ws) = 1 THEN ws[1]
    ELSE ws[1] \o <<" ">> \o Join(Tail(ws))

\* stopwords.words('english') restricted to the words the alphabet can spell
StopWords == {<<"a">>}

NotStopWord(w) == w \notin StopWords

\* a stopword filter that deletes from the list it is iterating over, so the
\* element following each deleted one is skipped
RECURSIVE RemoveWhileIterating(_, _)
RemoveWhileIterating(ws, i) ==
    IF i > Len(ws) THEN ws
    ELSE IF ws[i] \in StopWords
         THEN RemoveWhileIterating(SubSeq(ws, 1, i - 1) \o SubSeq(ws, i + 1, Len(ws)), i + 1)
         ELSE RemoveWhileIterating(ws, i + 1)

clean_text_skipping(t) == RemoveWhileIterating(Split(ReSub(Lower(t))), 1)

clean_text(t) == SelectSeq(Split(ReSub(Lower(t))), NotStopWord)

\* ------------------------------------------------------------ aggregation
\* Counter(words): one <<word, count>> entry per distinct word, in order of
\* first appearance
RECURSIVE CountIn(_, _)
CountIn(ws, w) ==
    IF ws = <<>> THEN 0
    ELSE (IF Head(ws) = w THEN 1 ELSE 0) + CountIn(Tail(ws), w)

RECURSIVE Distinct(_, _)
Distinct(ws, seen) ==
    IF ws = <<>> THEN <<>>
    ELSE IF Head(ws) \in seen THEN Distinct(Tail(ws), seen)
    ELSE <<Head(ws)>> \o Distinct(Tail(ws), seen \cup {Head(ws)})

\* a counter that overwrites instead of incrementing: every count is 1
CounterOverwriting(ws) ==
    LET ds == Distinct(ws, {}) IN [i \in 1..Len(ds) |-> <<ds[i], 1>>]

Counter(ws) ==
    LET ds == Distinct(ws, {}) IN [i \in 1..Len(ds) |-> <<ds[i], CountIn(ws, ds[i])>>]

RECURSIVE SumCounts(_)
SumCounts(wf) == IF wf = <<>> THEN 0 ELSE Head(wf)[2] + SumCounts(Tail(wf))

\* (Frequency / total_words * 100).round(2), in hundredths of a percent,
\* halves rounded to even
Pct(cnt, total) ==
    LET num == cnt * 10000
        q == num \div total
        r2 == 2 * (num % total)
    IN  IF r2 > total \/ (r2 = total /\ q % 2 = 1) THEN q + 1 ELSE q

\* sort_values(by='Frequency', ascending=False): rows with equal Frequency
\* keep their relative order
RECURSIVE InsertDesc(_, _)
InsertDesc(sorted, row) ==
    IF sorted = <<>> THEN <<row>>
    ELSE IF Head(sorted).Frequency >= row.Frequency
         THEN <<Head(sorted)>> \o InsertDesc(Tail(sorted), row)
         ELSE <<row>> \o sorted

RECURSIVE SortDesc(_)
SortDesc(rows) ==
    IF rows = <<>> THEN <<>>
    ELSE InsertDesc(SortDesc(SubSeq(rows, 1, Len(rows) - 1)), rows[Len(rows)])

\* the same sort with ascending left at its default
RECURSIVE InsertAsc(_, _)
InsertAsc(sorted, row) ==
    IF sorted = <<>> THEN <<row>>
    ELSE IF Head(sorted).Frequency <= row.Frequency
         THEN <<Head(sorted)>> \o InsertAsc(Tail(sorted), row)
         ELSE <<row>> \o sorted

RECURSIVE SortAsc(_)
SortAsc(rows) ==
    IF rows = <<>> THEN <<>>
    ELSE InsertAsc(SortAsc(SubSeq(rows, 1, Len(rows) - 1)), rows[Len(rows)])

RankedAscending(wf) ==
    LET total == SumCounts(wf)
        rows == [i \in 1..Len(wf) |->
                   [Word |-> wf[i][1], Frequency |-> wf[i][2], Pct |-> Pct(wf[i][2], total)]]
        srt == SortAsc(rows)
    IN  [i \in 1..Len(srt) |->
           [Rank |-> i, Word |-> srt[i].Word, Frequency |-> srt[i].Frequency, Pct |-> srt[i].Pct]]

\* the DataFrame of get_word_stats, built from word_freq
Ranked(wf) ==
    LET total == SumCounts(wf)
        rows == [i \in 1..Len(wf) |->
                   [Word |-> wf[i][1], Frequency |-> wf[i][2], Pct |-> Pct(wf[i][2], total)]]
        srt == SortDesc(rows)
    IN  [i \in 1..Len(srt) |->
           [Rank |-> i, Word |-> srt[i].Word, Frequency |-> srt[i].Frequency, Pct |-> srt[i].Pct]]

\* get_word_stats(words) returns (df, word_freq)
get_word_stats(ws) == [df |-> Ranked(Counter(ws)), word_freq |-> Counter(ws)]

\* ------------------------------------------------------------------ state
VARIABLES
    pc,             \* "run": between script runs; otherwise a pipeline stage
    input_method,   \* st.radio selection
    st_text,        \* st.session_state.text
    st_origin,      \* the input method whose fetch last assigned st_text
    uploaded_file,  \* st.file_uploader value: None, Corrupt or the PDF's text
    paragraph,      \* st.text_area value
    click,          \* the button whose click started the latest run
    search,         \* outcome of the catalog request in the latest run
    book_url,       \* book_url of the latest run
    fetched,        \* what scrape_novel / fetch_text_from_url returned
    text,           \* the script's local text
    exc,            \* the uncaught exception that ended the latest run
    messages,       \* messages the latest run displayed
    offered,        \* the latest run displayed the Analyze Text button
    words,          \* clean_text(text) of the latest analysis
    stats_arg,      \* the argument get_word_stats was called with
    word_freq,      \* Counter returned by get_word_stats
    df,             \* DataFrame returned by get_word_stats
    rewords         \* clean_text of the re-joined words (pipeline only)

vars == <<pc, input_method, st_text, st_origin, uploaded_file, paragraph,
          click, search, book_url, fetched, text, exc,
          messages, offered, words, stats_arg, word_freq, df, rewords>>

\* Python truthiness of an optional string
Truthy(v) == v # None /\ v # <<>>

\* ------------------------------------------------------- one script run
\* the state a run starts from: session state as it is, every
\* script local at the value lines 139 and 145-147 have not yet changed
Start ==
    [st_text |-> st_text, st_origin |-> st_origin,
     search |-> "notcalled", book_url |-> None, fetched |-> NotCalled,
     text |-> <<>>, exc |-> NoExc, messages |-> {}]

\* what requests.get does: raise, or return a response with a status and a
\* body
Responses ==
    {[raises |-> TRUE, ok |-> FALSE, body |-> <<>>]}
    \cup {[raises |-> FALSE, ok |-> o, body |-> t] : o \in BOOLEAN, t \in SessionTexts}

\* get_book_url(book_name).  srch is what the catalog request does:
\* "neterror" (requests.get raises; nothing catches it), "nohit" (the page
\* has no li.booklink) or "hit" (the first result gives the download URL)
get_book_url(srch) ==
    IF srch = "neterror" THEN Raised
    ELSE IF srch = "hit" THEN BookUrl
    ELSE None

\* scrape_novel(url): a RequestException, raise_for_status's included, is
\* caught and None returned.  st.cache_data only replays an answer an earlier
\* call returned, which is one of the answers resp ranges over.
scrape_novel(resp) == IF resp.raises \/ ~resp.ok THEN None ELSE resp.body

\* fetch_text_from_url(url): None for any exception or a non-OK status
fetch_text_from_url(resp) ==
    IF resp.raises THEN None
    ELSE IF resp.ok THEN resp.body
    ELSE None

\* input_method == "Enter Novel Name"
NovelBranch(clk, srch, resp) ==
    IF clk # "fetch" THEN [Start EXCEPT !.text = st_text]
    ELSE LET url == get_book_url(srch)
         IN  IF url = Raised
             THEN [Start EXCEPT !.search = srch, !.exc = RequestException]
             ELSE IF ~Truthy(url)
             THEN [Start EXCEPT !.search = srch, !.book_url = url,
                                !.messages = {NOT_FOUND}, !.text = st_text]
             ELSE LET r == scrape_novel(resp)
                  IN  [Start EXCEPT !.search = srch, !.book_url = url, !.fetched = r,
                                    !.st_text = r, !.st_origin = NOVEL,
                                    !.messages =
                                        (IF Truthy(r) THEN {SUCCESS} ELSE {FETCH_FAILED})
                                        \cup (IF r = None THEN {SCRAPE_ERROR} ELSE {}),
                                    !.text = r]

\* a URL branch that stores whatever the fetch returned
UrlBranchStoringAlways(clk, resp) ==
    IF clk # "fetch" THEN [Start EXCEPT !.text = st_text]
    ELSE LET r == fetch_text_from_url(resp)
         IN  [Start EXCEPT !.fetched = r,
                           !.st_text = r, !.st_origin = URL,
                           !.messages = IF Truthy(r) THEN {} ELSE {URL_FAILED},
                           !.text = r]

\* input_method == "Provide URL"
UrlBranch(clk, resp) ==
    IF clk # "fetch" THEN [Start EXCEPT !.text = st_text]
    ELSE LET r == fetch_text_from_url(resp)
         IN  IF Truthy(r)
             THEN [Start EXCEPT !.fetched = r,
                                !.st_text = r, !.st_origin = URL, !.text = r]
             ELSE [Start EXCEPT !.fetched = r,
                                !.messages = {URL_FAILED}, !.text = st_text]

\* an upload branch that also stores the extracted text in the session
PdfBranchStoring(up) ==
    IF up = None THEN Start
    ELSE IF up = Corrupt THEN [Start EXCEPT !.exc = PdfError]
    ELSE [Start EXCEPT !.text = up, !.st_text = up]

\* input_method == "Upload PDF": extract_text_from_pdf(uploaded_file)
PdfBranch(up) ==
    IF up = None THEN Start
    ELSE IF up = Corrupt THEN [Start EXCEPT !.exc = PdfError]
    ELSE [Start EXCEPT !.text = up]

\* a paste branch that falls back to the session text when nothing is pasted
PasteBranchFallingBack(para) ==
    [Start EXCEPT !.text = IF para # <<>> THEN para
                           ELSE IF st_text = None THEN <<>> ELSE st_text]

\* input_method == "Paste Paragraph"
PasteBranch(para) == [Start EXCEPT !.text = para]

Unanalysed ==
    [offered |-> FALSE, words |-> <<>>, stats_arg |-> NotCalled,
     word_freq |-> <<>>, df |-> <<>>, exc |-> NoExc, warned |-> FALSE]

\* the analysis section with the empty-words check left out
AnalyzeSectionUnguarded(txt, clk) ==
    IF txt = None THEN [Unanalysed EXCEPT !.exc = AttributeError]
    ELSE IF Strip(txt) = <<>> THEN Unanalysed
    ELSE IF clk # "analyze" THEN [Unanalysed EXCEPT !.offered = TRUE]
    ELSE LET ws == clean_text(txt)
             st == get_word_stats(ws)
         IN  [Unanalysed EXCEPT !.offered = TRUE, !.words = ws, !.stats_arg = ws,
                                !.word_freq = st.word_freq, !.df = st.df]

\* the analysis section with the Analyze Text button shown unconditionally
AnalyzeSectionAlwaysOffered(txt, clk) ==
    IF txt = None THEN [Unanalysed EXCEPT !.offered = TRUE]
    ELSE IF clk # "analyze" THEN [Unanalysed EXCEPT !.offered = TRUE]
    ELSE LET ws == clean_text(txt)
             st == get_word_stats(ws)
         IN  IF ws = <<>>
             THEN [Unanalysed EXCEPT !.offered = TRUE, !.warned = TRUE]
             ELSE [Unanalysed EXCEPT !.offered = TRUE, !.words = ws, !.stats_arg = ws,
                                    !.word_freq = st.word_freq, !.df = st.df]

\* lines 178-213: text.strip() guard, Analyze Text button, clean_text, the
\* empty-words warning, get_word_stats
AnalyzeSection(txt, clk) ==
    IF txt = None THEN [Unanalysed EXCEPT !.exc = AttributeError]
    ELSE IF Strip(txt) = <<>> THEN Unanalysed
    ELSE IF clk # "analyze" THEN [Unanalysed EXCEPT !.offered = TRUE]
    ELSE LET ws == clean_text(txt)
             st == get_word_stats(ws)
         IN  IF ws = <<>>
             THEN [Unanalysed EXCEPT !.offered = TRUE, !.warned = TRUE]
             ELSE [Unanalysed EXCEPT !.offered = TRUE, !.words = ws, !.stats_arg = ws,
                                    !.word_freq = st.word_freq, !.df = st.df]

\* the dispatch on input_method, lines 141-174
Dispatch(m, up, para, clk, srch, resp) ==
    IF m = NOVEL THEN NovelBranch(clk, srch, resp)
    ELSE IF m = PDF THEN PdfBranch(up)
    ELSE IF m = PASTE THEN PasteBranch(para)
    ELSE UrlBranch(clk, resp)

\* one execution of the script, lines 126-213
ScriptRun(m, up, para, clk, srch, resp) ==
    LET b == Dispatch(m, up, para, clk, srch, resp)
        a == IF b.exc # NoExc THEN Unanalysed ELSE AnalyzeSection(b.text, clk)
    IN  /\ pc' = "run"
        /\ input_method' = m
        /\ uploaded_file' = up
        /\ paragraph' = para
        /\ click' = clk
        /\ st_text' = b.st_text
        /\ st_origin' = b.st_origin
        /\ search' = b.search
        /\ book_url' = b.book_url
        /\ fetched' = b.fetched
        /\ text' = b.text
        /\ exc' = IF b.exc # NoExc THEN b.exc ELSE a.exc
        /\ messages' = b.messages \cup (IF a.warned THEN {WARNING} ELSE {})
        /\ offered' = a.offered
        /\ words' = a.words
        /\ stats_arg' = a.stats_arg
        /\ word_freq' = a.word_freq
        /\ df' = a.df
        /\ rewords' = rewords

\* --------------------------------------------------------- session actions
\* the value of the network arguments of a run that makes no request
NoResponse == [raises |-> TRUE, ok |-> FALSE, body |-> <<>>]

\* the radio is switched; the widgets of the method left are discarded
SelectMethod ==
    /\ pc = "run"
    /\ \E m \in Methods \ {input_method} :
          ScriptRun(m, None, <<>>, "none", "nohit", NoResponse)

\* a rerun that changes no widget and clicks no button (typing a title or URL)
Rerun ==
    /\ pc = "run"
    /\ ScriptRun(input_method, uploaded_file, paragraph, "none", "nohit", NoResponse)

\* a file is chosen in st.file_uploader
UploadPdf ==
    /\ pc = "run"
    /\ input_method = PDF
    /\ \E f \in SessionTexts \cup {Corrupt} :
          ScriptRun(PDF, f, paragraph, "none", "nohit", NoResponse)

\* text is entered in st.text_area
PasteParagraph ==
    /\ pc = "run"
    /\ input_method = PASTE
    /\ \E p \in SessionTexts :
          ScriptRun(PASTE, uploaded_file, p, "none", "nohit", NoResponse)

\* "Fetch & Analyze" under Enter Novel Name
FetchNovel ==
    /\ pc = "run"
    /\ input_method = NOVEL
    /\ \E srch \in {"neterror", "nohit", "hit"}, resp \in Responses :
          ScriptRun(NOVEL, uploaded_file, paragraph, "fetch", srch, resp)

\* "Fetch & Analyze" under Provide URL
FetchUrl ==
    /\ pc = "run"
    /\ input_method = URL
    /\ \E resp \in Responses :
          ScriptRun(URL, uploaded_file, paragraph, "fetch", "nohit", resp)

\* "Analyze Text", which only a run that displayed the button can receive
AnalyzeText ==
    /\ pc = "run"
    /\ offered
    /\ ScriptRun(input_method, uploaded_file, paragraph, "analyze", "nohit", NoResponse)

\* the state after the first run of a new session
Init ==
    /\ pc = "run"
    /\ input_method = NOVEL
    /\ st_text = <<>>
    /\ st_origin = "init"
    /\ uploaded_file = None
    /\ paragraph = <<>>
    /\ click = "none"
    /\ search = "notcalled"
    /\ book_url = None
    /\ fetched = NotCalled
    /\ text = <<>>
    /\ exc = NoExc
    /\ messages = {}
    /\ offered = FALSE
    /\ words = <<>>
    /\ stats_arg = NotCalled
    /\ word_freq = <<>>
    /\ df = <<>>
    /\ rewords = NotCalled

Next ==
    \/ SelectMethod
    \/ Rerun
    \/ UploadPdf
    \/ PasteParagraph
    \/ FetchNovel
    \/ FetchUrl
    \/ AnalyzeText

Spec == Init /\ [][Next]_vars

\* ------------------------------------------------ the statistics pipeline
\* lines 181-185 applied to an arbitrary text, followed by a second
\* clean_text of the space-joined words
PipelineInit ==
    /\ pc = "input"
    /\ text \in PureTexts
    /\ input_method = PASTE
    /\ st_text = <<>>
    /\ st_origin = "init"
    /\ uploaded_file = None
    /\ paragraph = text
    /\ click = "analyze"
    /\ search = "notcalled"
    /\ book_url = None
    /\ fetched = NotCalled
    /\ exc = NoExc
    /\ messages = {}
    /\ offered = FALSE
    /\ words = <<>>
    /\ stats_arg = NotCalled
    /\ word_freq = <<>>
    /\ df = <<>>
    /\ rewords = NotCalled

\* words = clean_text(text)
Clean ==
    /\ pc = "input"
    /\ words' = clean_text(text)
    /\ pc' = "cleaned"
    /\ UNCHANGED <<input_method, st_text, st_origin, uploaded_file, paragraph,
                   click, search, book_url, fetched, text,
                   exc, messages, offered, stats_arg, word_freq, df, rewords>>

\* if not words: st.warning(...)
Warn ==
    /\ pc = "cleaned"
    /\ words = <<>>
    /\ messages' = messages \cup {WARNING}
    /\ pc' = "warned"
    /\ UNCHANGED <<input_method, st_text, st_origin, uploaded_file, paragraph,
                   click, search, book_url, fetched, text,
                   exc, offered, words, stats_arg, word_freq, df, rewords>>

\* else: df, word_freq = get_word_stats(words)
Aggregate ==
    /\ pc = "cleaned"
    /\ words # <<>>
    /\ stats_arg' = words
    /\ word_freq' = get_word_stats(words).word_freq
    /\ df' = get_word_stats(words).df
    /\ pc' = "counted"
    /\ UNCHANGED <<input_method, st_text, st_origin, uploaded_file, paragraph,
                   click, search, book_url, fetched, text,
                   exc, messages, offered, words, rewords>>

\* clean_text(' '.join(words))
Reclean ==
    /\ pc = "cleaned"
    /\ rewords' = clean_text(Join(words))
    /\ pc' = "recleaned"
    /\ UNCHANGED <<input_method, st_text, st_origin, uploaded_file, paragraph,
                   click, search, book_url, fetched, text,
                   exc, messages, offered, words, stats_arg, word_freq, df>>

PipelineNext == Clean \/ Warn \/ Aggregate \/ Reclean

PipelineSpec == PipelineInit /\ [][PipelineNext]_vars

\* ------------------------------------------------------------- properties
FetchMethods == {NOVEL, URL}

IsText(v) == v \notin {None, NotCalled, Raised, Corrupt}

Blank(v) == IsText(v) /\ Strip(v) = <<>>

\* C1: every run under Enter Novel Name or Provide URL in which the catalog
\* request itself did not fail ends without an uncaught exception, also
\* after a catalog hit whose download failed.
C1_FetchPathsNeverCrash ==
    (pc = "run" /\ input_method \in FetchMethods /\ search # "neterror") => exc = NoExc

\* C2: a network error on the catalog search request is reported by
\* get_book_url as "no URL available", never as an exception.
C2_SearchErrorIsAbsence ==
    search = "neterror" => (exc = NoExc /\ book_url = None)

\* the text the input method of the latest run produced, if it produced one
LastProduced ==
    IF input_method = PDF /\ IsText(uploaded_file) THEN uploaded_file
    ELSE IF input_method = PASTE /\ paragraph # <<>> THEN paragraph
    ELSE IF input_method \in FetchMethods /\ click = "fetch" /\ Truthy(fetched)
         THEN fetched
    ELSE NotCalled

\* C3 (as claimed): whenever the input method of the latest run (title
\* fetch, PDF upload, pasted paragraph, URL fetch) produced a text, the
\* session-state text equals that text.
C3_LastWriterWins ==
    (pc = "run" /\ LastProduced # NotCalled) => st_text = LastProduced

\* C3 (amended): only the two fetch handlers write the session-state text.
\* A title fetch whose catalog lookup resolved a URL overwrites it with what
\* scrape_novel returned (None when the download failed), a URL fetch that
\* returned non-empty text overwrites it with that text, and every other
\* run (PDF upload and pasted paragraph included) leaves it unchanged.
C3_FetchesAreTheOnlyWriters ==
    [][ IF click' = "fetch" /\ input_method' = NOVEL /\ Truthy(book_url')
        THEN st_text' = fetched'
        ELSE IF click' = "fetch" /\ input_method' = URL /\ Truthy(fetched')
        THEN st_text' = fetched'
        ELSE st_text' = st_text ]_vars

C3_Witness ==
    /\ input_method \in {PDF, PASTE}
    /\ LastProduced # NotCalled
    /\ Truthy(st_text)
    /\ st_text # LastProduced
    /\ offered

\* the input method under which the script's text was produced
TextOrigin == IF input_method \in FetchMethods THEN st_origin ELSE input_method

\* C4 (as claimed): the text offered for analysis while a method is active
\* was produced under that method.
C4_TextKeyedByMethod ==
    offered => TextOrigin = input_method

\* C4 (amended): the session text is one value shared by the two fetch
\* methods.  Text offered under Enter Novel Name or Provide URL is the
\* session text, last written by a fetch under either of the two; text
\* offered under Upload PDF or Paste Paragraph is that run's own upload or
\* paragraph.
C4_TextSharedByFetchMethods ==
    offered =>
        \/ input_method = PDF /\ text = uploaded_file
        \/ input_method = PASTE /\ text = paragraph
        \/ input_method \in FetchMethods /\ text = st_text /\ st_origin \in FetchMethods

C4_Witness ==
    offered /\ input_method = URL /\ st_origin = NOVEL /\ click = "analyze"

\* C5: get_word_stats is never called with an empty token list; when
\* clean_text returns no words the run warns and stops before aggregation.
C5_NeverAggregatesEmpty ==
    /\ stats_arg # NotCalled => (stats_arg # <<>> /\ SumCounts(word_freq) > 0)
    /\ (pc = "run" /\ click = "analyze" /\ offered /\ words = <<>>) =>
           (WARNING \in messages /\ stats_arg = NotCalled /\ df = <<>>)

C5_Witness ==
    /\ pc = "run"
    /\ click = "analyze"
    /\ offered
    /\ clean_text(text) = <<>>
    /\ WARNING \in messages
    /\ stats_arg = NotCalled

\* C6 (as claimed): a run whose text is whitespace-only shows the
\* "no valid words" warning and does not aggregate.
C6_BlankInputWarns ==
    (pc = "run" /\ exc = NoExc /\ Blank(text) /\ text # <<>>) =>
        (WARNING \in messages /\ stats_arg = NotCalled)

\* C6 (amended): for an empty or whitespace-only text clean_text returns no
\* tokens and nothing is aggregated, but no warning is shown either: the
\* Analyze Text button is not displayed.  The warning is shown only when
\* Analyze Text is clicked on a text that is not blank and cleans to nothing.
C6_BlankInputIsNotOffered ==
    /\ (pc = "run" /\ exc = NoExc /\ Blank(text)) =>
          /\ clean_text(text) = <<>>
          /\ ~offered
          /\ WARNING \notin messages
          /\ stats_arg = NotCalled
    /\ (pc = "run" /\ WARNING \in messages) =>
          (click = "analyze" /\ ~Blank(text) /\ clean_text(text) = <<>>)

C6_Witness ==
    /\ pc = "run"
    /\ input_method = PASTE
    /\ paragraph # <<>>
    /\ Blank(text)
    /\ ~offered
    /\ messages = {}

\* the rows of a table, as a set of words
WordSet(ws) == {ws[i] : i \in 1..Len(ws)}

RECURSIVE SumFrequency(_)
SumFrequency(rows) ==
    IF rows = <<>> THEN 0 ELSE Head(rows).Frequency + SumFrequency(Tail(rows))

\* C7: the frequencies of the table returned by get_word_stats sum to the
\* number of tokens clean_text returned, and the table has exactly one row
\* per distinct token.
C7_CountsSumToTokens ==
    pc = "counted" =>
        /\ words = clean_text(text)
        /\ SumFrequency(df) = Len(words)
        /\ SumCounts(word_freq) = Len(words)
        /\ Len(df) = Cardinality(WordSet(words))
        /\ {df[i].Word : i \in 1..Len(df)} = WordSet(words)

C7_Witness ==
    pc = "counted" /\ Len(df) >= 2 /\ Len(words) > Len(df)

\* C8: for a non-empty token list the ranks of the table are 1..n, n the
\* number of distinct tokens, and Frequency does not increase with Rank.
C8_RanksContiguousAndSorted ==
    pc = "counted" =>
        /\ Len(df) = Cardinality(WordSet(words))
        /\ \A i \in 1..Len(df) : df[i].Rank = i
        /\ \A i \in 1..Len(df) - 1 : df[i].Frequency >= df[i + 1].Frequency

C8_Witness ==
    /\ pc = "counted"
    /\ Len(df) >= 2
    /\ df[1].Frequency > df[2].Frequency
    /\ word_freq[1][2] < word_freq[2][2]

\* a text of lowercase letters and spaces only
CleanInput(t) == \A i \in 1..Len(t) : t[i] \in Letters \cup {" "}

\* C9: for a text of lowercase letters and spaces, cleaning the
\* space-joined output of clean_text again yields the same token list, in
\* which no stopword occurs.
C9_CleanIdempotent ==
    (pc = "recleaned" /\ CleanInput(text)) =>
        /\ rewords = words
        /\ \A i \in 1..Len(words) : words[i] \notin StopWords

C9_Witness ==
    /\ pc = "recleaned"
    /\ CleanInput(text)
    /\ Len(words) >= 2
    /\ Len(Split(text)) > Len(words)
    /\ words[1] = words[2]

\* C10: a Provide URL fetch that returns nothing leaves the session text as
\* it was, shows the error, and still offers for analysis the text that was
\* offered before; a title fetch whose download returns nothing replaces
\* the session text.
C10_FailedUrlFetchKeepsText ==
    [][ /\ (click' = "fetch" /\ input_method' = URL /\ ~Truthy(fetched')) =>
             /\ st_text' = st_text
             /\ text' = st_text
             /\ URL_FAILED \in messages'
             /\ offered => offered'
        /\ (click' = "fetch" /\ input_method' = NOVEL /\ Truthy(book_url')
                /\ ~Truthy(fetched')) =>
             /\ st_text' = fetched'
             /\ ~offered' ]_vars

C10_Witness ==
    /\ click = "fetch"
    /\ input_method = URL
    /\ ~Truthy(fetched)
    /\ URL_FAILED \in messages
    /\ offered
    /\ st_origin = NOVEL

====
